---- MODULE Spec2Model ----
(***************************************************************************)
(* Model of s3sync.py (class SmartS3Sync): construction of the object,     *)
(* translation of the local directory tree into s3 keys, verification of   *)
(* the keys against the store (head-object / copy-object / put-object) and *)
(* the final "aws s3 sync".                                                *)
(*                                                                         *)
(* Strings are sequences of one-character strings.  An attribute set (a    *)
(* JSON object) is a function from attribute names to values.  Every aws   *)
(* command is assumed to be spawnable (the aws executable exists); a       *)
(* command that fails exits non-zero, which subprocess.run and Popen do    *)
(* not turn into an exception.                                             *)
(***************************************************************************)
EXTENDS Naturals, Sequences, FiniteSets

VARIABLES
    local,        \* options['<localdir>']
    s3path,       \* options['<s3path>']
    metadata,     \* options['--metadata'], parsed JSON or Malformed
    tree,         \* local directories (relative paths); {} when local is missing
    bucket,       \* self.bucket
    key,          \* self.key
    localToKeys,  \* self.localToKeys
    metadir,      \* self.metadir
    metafile,     \* self.metafile
    store,        \* the bucket: key -> object
    store0,       \* the bucket as the first run found it
    calls,        \* aws commands issued by the current run, in order
    pc,           \* position in __main__ / sync / verify_keys
    phase,        \* which verify_keys call of sync is running (1 or 2)
    keys,         \* verify_keys: the keys argument
    i,            \* verify_keys: position of k in keys
    run,          \* number of the current invocation of the tool
    faults,       \* failed aws commands so far
    unit          \* position of each list element's unit of work, when the
                  \* elements of a list are worked on in no fixed order

vars == <<local, s3path, metadata, tree, bucket, key, localToKeys, metadir,
          metafile, store, store0, calls, pc, phase, keys, i, run, faults,
          unit>>

inputs == <<local, s3path, metadata, tree, store0>>
fields == <<bucket, key, localToKeys, metadir, metafile>>

----------------------------------------------------------------------------
(* Bounds *)

MaxFaults == 1      \* failing aws commands per behaviour
MaxRuns   == 2      \* invocations of the tool on the same inputs

----------------------------------------------------------------------------
(* Strings *)

Code(c) ==
    CASE c = "/" -> 47
      [] c = "a" -> 97
      [] c = "b" -> 98
      [] c = "c" -> 99
      [] c = "k" -> 107
      [] c = "p" -> 112
      [] c = "r" -> 114
      [] c = "z" -> 122

Min(S) == CHOOSE x \in S : \A y \in S : x <= y

\* s[n:]
Slice(s, n) == SubSeq(s, n + 1, Len(s))

\* s.endswith('/')
EndsWithSlash(s) == Len(s) > 0 /\ s[Len(s)] = "/"

\* path.split('/', 1)
split1(path) ==
    LET at == {j \in 1..Len(path) : path[j] = "/"}
    IN  IF at = {} THEN <<path>>
        ELSE <<SubSeq(path, 1, Min(at) - 1), Slice(path, Min(at))>>

\* byte order of two lines, the comparison "sort" falls back to
StrLess(s, t) ==
    \E j \in 1..(Len(s) + 1) :
        /\ j <= Len(t)
        /\ \A h \in 1..(j - 1) : s[h] = t[h]
        /\ \/ j = Len(s) + 1
           \/ Code(s[j]) < Code(t[j])

\* bug variant: sort -r
RECURSIVE SortLines_descending(_)
SortLines_descending(S) ==
    IF S = {} THEN <<>>
    ELSE LET m == CHOOSE x \in S : \A y \in S \ {x} : StrLess(y, x)
         IN  <<m>> \o SortLines_descending(S \ {m})

RECURSIVE SortLines(_)
SortLines(S) ==
    IF S = {} THEN <<>>
    ELSE LET m == CHOOSE x \in S : \A y \in S \ {x} : StrLess(x, y)
         IN  <<m>> \o SortLines(S \ {m})

RECURSIVE JoinPath(_)
JoinPath(d) ==
    IF Len(d) = 0 THEN <<>>
    ELSE IF Len(d) = 1 THEN <<d[1]>>
    ELSE <<d[1], "/">> \o JoinPath(Tail(d))

----------------------------------------------------------------------------
(* Attribute sets *)

NoMeta == [n \in {} |-> ""]

Malformed == [n \in {"!"} |-> "!"]      \* a --metadata string json.loads rejects

BaseMeta == [n \in {"uid", "gid"} |-> "6812"]

BaseMetaWithMode == [n \in {"uid", "mode"} |-> IF n = "mode" THEN "493" ELSE "6812"]

OtherMeta == [n \in {"owner"} |-> "x"]

SetMode(m, v) == [n \in DOMAIN m \cup {"mode"} |-> IF n = "mode" THEN v ELSE m[n]]

\* bug variant: a mode the user supplied is kept
parse_meta_keeps_mode(meta) ==
    IF "mode" \in DOMAIN meta THEN <<meta, meta>>
    ELSE <<SetMode(meta, "509"), SetMode(meta, "33204")>>

\* bug variant: the file mode is only a default
parse_meta_file_mode_default(meta) ==
    <<SetMode(meta, "509"),
      IF "mode" \in DOMAIN meta THEN meta ELSE SetMode(meta, "33204")>>

parse_meta(meta) == <<SetMode(meta, "509"), SetMode(meta, "33204")>>

----------------------------------------------------------------------------
(* Path Translator and Directory Enumerator *)

parse_prefix(path) ==
    IF Len(split1(path)) > 1 THEN split1(path)[2] ELSE path

\* one line of the output of "find local -type d" for the directory d
FindLine(loc, d) ==
    IF d = <<>> THEN loc
    ELSE (IF EndsWithSlash(loc) THEN loc ELSE loc \o <<"/">>) \o JoinPath(d)

\* "find local -type d | sort -n", then .decode().strip().split('\n').
\* Every line starts with local, so the numeric keys of "sort -n" are all
\* equal and the lines come out in byte order; no output gives [''].
dLst(loc, t) ==
    IF t = {} THEN << <<>> >>
    ELSE SortLines({FindLine(loc, d) : d \in t})

find_dirs(loc, prefix, t) ==
    LET lst == dLst(loc, t)
    IN  [j \in 1..Len(lst) |-> prefix \o Slice(lst[j], Len(loc) + 1) \o <<"/">>]

----------------------------------------------------------------------------
(* The store *)

Absent == [exists |-> FALSE, meta |-> NoMeta]

Object(m) == [exists |-> TRUE, meta |-> m]

ForeignKey == <<"z">>

\* the object stored under k; a key the bucket does not hold has none
Get(st, k) == IF k \in DOMAIN st THEN st[k] ELSE Absent

Put(st, k, o) == [h \in DOMAIN st \cup {k} |-> IF h = k THEN o ELSE st[h]]

IsPrefix(s, t) == Len(s) <= Len(t) /\ SubSeq(t, 1, Len(s)) = s

\* bug variant: the lookup lists by prefix and answers with the first match
HeadObject_by_prefix(st, k, fault) ==
    IF fault = "none"
    THEN LET found == {h \in DOMAIN st : st[h].exists /\ IsPrefix(k, h)}
         IN  IF found # {}
             THEN [kind |-> "json",
                   Metadata |-> st[CHOOSE h \in found :
                                       \A g \in found : Len(h) <= Len(g)].meta]
             ELSE [kind |-> "not_found", Metadata |-> NoMeta]
    ELSE [kind |-> fault, Metadata |-> NoMeta]

\* what "aws s3api head-object" writes to stdout
HeadObject(st, k, fault) ==
    IF fault = "none"
    THEN IF Get(st, k).exists
         THEN [kind |-> "json", Metadata |-> Get(st, k).meta]
         ELSE [kind |-> "not_found", Metadata |-> NoMeta]
    ELSE [kind |-> fault, Metadata |-> NoMeta]

\* bug variant: an empty Metadata counts as metadata
meta_check_nonempty_inverted(obj_head) ==
    IF obj_head.kind # "json" THEN "raise"
    ELSE IF Cardinality(DOMAIN obj_head.Metadata) = 0 THEN "True"
    ELSE "False"

meta_check(obj_head) ==
    IF obj_head.kind # "json" THEN "raise"
    ELSE IF Cardinality(DOMAIN obj_head.Metadata) = 0 THEN "False"
    ELSE "True"

----------------------------------------------------------------------------
(* Inputs *)

Locals == { <<"r">>, <<"r", "/">> }

Targets == { <<"k">>, <<"k", "/">>, <<"k", "/", "p">>, <<"k", "/", "p", "/">> }

Metadatas == {BaseMeta, BaseMetaWithMode, Malformed}

SubDirs == { <<"b">>, <<"b", "c">>, <<"c">> }

\* the directories of an existing local tree: the root and a parent-closed
\* set of subdirectories
Trees ==
    { {<< >>} \cup S : S \in { T \in SUBSET SubDirs :
          \A d \in T : Len(d) > 1 => SubSeq(d, 1, Len(d) - 1) \in T } }

Range(f) == {f[j] : j \in DOMAIN f}

\* the keys a run on these inputs addresses, and one key it does not
StoreKeys(loc, path, t) ==
    {parse_prefix(path)} \cup Range(Slice(find_dirs(loc, parse_prefix(path), t), 1))
        \cup {ForeignKey}

\* one aws command: what it is, its --key (or url), its --metadata, how it
\* ended, its source directory (sync only) and the list element it is for
Call(op, k, m, res) ==
    [op |-> op, key |-> k, meta |-> m, res |-> res, src |-> <<>>,
     ph |-> phase, n |-> i]

Init ==
    /\ local \in Locals
    /\ s3path \in Targets
    /\ metadata \in Metadatas
    /\ tree \in Trees \cup {{}}
    /\ bucket = <<>>
    /\ key = <<>>
    /\ localToKeys = <<>>
    /\ metadir = NoMeta
    /\ metafile = NoMeta
    /\ store \in [StoreKeys(local, s3path, tree) -> {Absent, Object(NoMeta), Object(OtherMeta)}]
    /\ store[ForeignKey] = Object(OtherMeta)
    /\ store0 = store
    /\ calls = <<>>
    /\ pc = "main"
    /\ phase = 0
    /\ keys = <<>>
    /\ i = 0
    /\ run = 1
    /\ faults = 0
    /\ unit = <<>>

----------------------------------------------------------------------------
(* SmartS3Sync.__init__ *)

\* bug variant: a --metadata that cannot be parsed is replaced by the default
Construct_defaults_on_malformed ==
    /\ pc = "main"
    /\ bucket' = split1(s3path)[1]
    /\ key' = parse_prefix(s3path)
    /\ localToKeys' = find_dirs(local, parse_prefix(s3path), tree)
    /\ LET meta == IF metadata = Malformed THEN BaseMeta ELSE metadata
       IN  /\ metadir' = parse_meta(meta)[1]
           /\ metafile' = parse_meta(meta)[2]
    /\ pc' = "sync_213"
    /\ UNCHANGED <<inputs, unit, store, calls, phase, keys, i, run, faults>>

Construct ==
    /\ pc = "main"
    /\ bucket' = split1(s3path)[1]
    /\ key' = parse_prefix(s3path)
    /\ localToKeys' = find_dirs(local, parse_prefix(s3path), tree)
    /\ IF metadata = Malformed
       THEN /\ pc' = "crashed"                  \* json.loads raises
            /\ UNCHANGED <<metadir, metafile>>
       ELSE /\ metadir' = parse_meta(metadata)[1]
            /\ metafile' = parse_meta(metadata)[2]
            /\ pc' = "sync_213"
    /\ UNCHANGED <<inputs, unit, store, calls, phase, keys, i, run, faults>>

----------------------------------------------------------------------------
(* SmartS3Sync.sync and SmartS3Sync.verify_keys *)

\* bug variant: the subdirectories are verified before the root
sync_keys_subdirs_first(ph) == IF ph = 1 THEN Slice(localToKeys, 1) ELSE <<key>>

\* bug variant: the first element of the key list is not dropped
sync_keys_keeps_first(ph) == IF ph = 1 THEN <<key>> ELSE localToKeys

\* the keys argument of the two verify_keys calls of sync
sync_keys(ph) == IF ph = 1 THEN <<key>> ELSE Slice(localToKeys, 1)

VerifyRoot ==
    /\ pc = "sync_213"
    /\ phase' = 1
    /\ keys' = sync_keys(1)
    /\ i' = 1
    /\ pc' = "for"
    /\ UNCHANGED <<inputs, unit, fields, store, calls, run, faults>>

VerifySubdirs ==
    /\ pc = "sync_216"
    /\ phase' = 2
    /\ keys' = sync_keys(2)
    /\ i' = 1
    /\ pc' = "for"
    /\ UNCHANGED <<inputs, unit, fields, store, calls, run, faults>>

\* the loop is exhausted: verify_keys returns to sync
VerifyReturn ==
    /\ pc = "for"
    /\ i > Len(keys)
    /\ pc' = IF phase = 1 THEN "sync_216" ELSE "sync_219"
    /\ UNCHANGED <<inputs, unit, fields, store, calls, phase, keys, i, run, faults>>

\* key_exists: Popen of "aws s3api head-object", not yet waited for
KeyExists ==
    /\ pc = "for"
    /\ i <= Len(keys)
    /\ calls' = Append(calls, Call("head-object", keys[i], NoMeta, "pending"))
    /\ pc' = "meta_check"
    /\ UNCHANGED <<inputs, unit, fields, store, phase, keys, i, run, faults>>

\* where verify_keys goes after meta_check returned r or raised
after_check(r) ==
    CASE r = "raise" -> "except"
      [] r = "False" -> "meta_update"
      [] r = "True"  -> "next"

\* bug variant: head-object is not waited for
SetRes_leaves_pending(cs, res) == cs

SetRes(cs, res) == [cs EXCEPT ![Len(cs)].res = res]

\* meta_check: communicate() collects the output of head-object
MetaCheck ==
    /\ pc = "meta_check"
    /\ \E fault \in {"none", "other_error", "malformed"} :
         /\ fault # "none" => faults < MaxFaults
         /\ faults' = IF fault = "none" THEN faults ELSE faults + 1
         /\ LET obj_head == HeadObject(store, keys[i], fault)
                to == after_check(meta_check(obj_head))
            IN  /\ calls' = SetRes(calls, IF obj_head.kind = "json"
                                         THEN (IF obj_head.Metadata = NoMeta
                                               THEN "empty" ELSE "meta")
                                         ELSE obj_head.kind)
                /\ IF to = "next"
                   THEN pc' = "for" /\ i' = i + 1
                   ELSE pc' = to /\ i' = i
    /\ UNCHANGED <<inputs, unit, fields, store, phase, keys, run>>

\* copy-object --metadata-directive REPLACE on an object copied onto itself
CopyObjectReplace(st, k, m) ==
    IF Get(st, k).exists THEN Put(st, k, Object(m)) ELSE st

\* put-object with no body
PutObject(st, k, m) == Put(st, k, Object(m))

MetaUpdate ==
    /\ pc = "meta_update"
    /\ \E ok \in BOOLEAN :
         /\ ~ok => faults < MaxFaults
         /\ faults' = IF ok THEN faults ELSE faults + 1
         /\ store' = IF ok THEN CopyObjectReplace(store, keys[i], metadir) ELSE store
         /\ calls' = Append(calls, Call("copy-object", keys[i], metadir,
                                        IF ok THEN "ok" ELSE "failed"))
    /\ pc' = "for"
    /\ i' = i + 1
    /\ UNCHANGED <<inputs, unit, fields, phase, keys, run>>

CreateKey ==
    /\ pc = "except"
    /\ \E ok \in BOOLEAN :
         /\ ~ok => faults < MaxFaults
         /\ faults' = IF ok THEN faults ELSE faults + 1
         /\ store' = IF ok THEN PutObject(store, keys[i], metadir) ELSE store
         /\ calls' = Append(calls, Call("put-object", keys[i], metadir,
                                        IF ok THEN "ok" ELSE "failed"))
    /\ pc' = "for"
    /\ i' = i + 1
    /\ UNCHANGED <<inputs, unit, fields, phase, keys, run>>

s3url == <<"s", "3", ":", "/", "/">> \o s3path

\* "aws s3 sync": uploads files, whose keys are none of the directory keys
BulkSync ==
    /\ pc = "sync_219"
    /\ \E ok \in BOOLEAN :
         /\ ~ok => faults < MaxFaults
         /\ faults' = IF ok THEN faults ELSE faults + 1
         /\ calls' = Append(calls, [op |-> "sync", key |-> s3url, meta |-> metafile,
                                    res |-> IF ok THEN "ok" ELSE "failed",
                                    src |-> local, ph |-> 3, n |-> 0])
    /\ pc' = "done"
    /\ UNCHANGED <<inputs, unit, fields, store, phase, keys, i, run>>

\* the tool is invoked again with the same arguments
Rerun ==
    /\ pc = "done"
    /\ run < MaxRuns
    /\ run' = run + 1
    /\ calls' = <<>>
    /\ pc' = "sync_213"
    /\ phase' = 0
    /\ keys' = <<>>
    /\ i' = 0
    /\ UNCHANGED <<inputs, unit, fields, store, faults>>

Next ==
    \/ Construct
    \/ VerifyRoot
    \/ VerifySubdirs
    \/ VerifyReturn
    \/ KeyExists
    \/ MetaCheck
    \/ MetaUpdate
    \/ CreateKey
    \/ BulkSync
    \/ Rerun

Spec == Init /\ [][Next]_vars

----------------------------------------------------------------------------
(* The body of the loop of verify_keys, one unit of work per list element,  *)
(* with the units of the second verify_keys call of sync taken in any order *)
(* and interleaved at the aws commands.                                     *)

\* the commands are kept grouped by list element
InsertCall(cs, c) ==
    SelectSeq(cs, LAMBDA x : x.n <= c.n) \o <<c>> \o SelectSeq(cs, LAMBDA x : x.n > c.n)

UnitCall(op, n, m, res) ==
    [op |-> op, key |-> keys[n], meta |-> m, res |-> res, src |-> <<>>,
     ph |-> 2, n |-> n]

HeadAnswer(obj_head) ==
    IF obj_head.kind = "json"
    THEN (IF obj_head.Metadata = NoMeta THEN "empty" ELSE "meta")
    ELSE obj_head.kind

InitUnits ==
    /\ local \in Locals
    /\ s3path \in Targets
    /\ metadata \in Metadatas \ {Malformed}
    /\ tree \in Trees
    /\ bucket = split1(s3path)[1]
    /\ key = parse_prefix(s3path)
    /\ localToKeys = find_dirs(local, parse_prefix(s3path), tree)
    /\ metadir = parse_meta(metadata)[1]
    /\ metafile = parse_meta(metadata)[2]
    /\ store \in [StoreKeys(local, s3path, tree) -> {Absent, Object(NoMeta), Object(OtherMeta)}]
    /\ store[ForeignKey] = Object(OtherMeta)
    /\ store0 = store
    /\ calls = <<>>
    /\ pc = "units"
    /\ phase = 2
    /\ keys = Slice(localToKeys, 1)
    /\ i = 0
    /\ run = 1
    /\ faults = 0
    /\ unit = [n \in 1..(Len(localToKeys) - 1) |-> "for"]

Finished == {"done", "done_early"}

\* the unit of element n ends; "done_early" if an earlier element is not done
Finish(n) ==
    IF \E m \in 1..(n - 1) : unit[m] \notin Finished THEN "done_early" ELSE "done"

UnitKeyExists(n) ==
    /\ unit[n] = "for"
    /\ calls' = InsertCall(calls, UnitCall("head-object", n, NoMeta, "pending"))
    /\ unit' = [unit EXCEPT ![n] = "meta_check"]
    /\ UNCHANGED <<inputs, fields, store, pc, phase, keys, i, run, faults>>

UnitMetaCheck(n) ==
    /\ unit[n] = "meta_check"
    /\ \E fault \in {"none", "other_error", "malformed"} :
         /\ fault # "none" => faults < MaxFaults
         /\ faults' = IF fault = "none" THEN faults ELSE faults + 1
         /\ LET obj_head == HeadObject(store, keys[n], fault)
                to == after_check(meta_check(obj_head))
                j == CHOOSE h \in DOMAIN calls :
                         calls[h].n = n /\ calls[h].op = "head-object"
            IN  /\ calls' = [calls EXCEPT ![j].res = HeadAnswer(obj_head)]
                /\ unit' = [unit EXCEPT ![n] = IF to = "next" THEN Finish(n) ELSE to]
    /\ UNCHANGED <<inputs, fields, store, pc, phase, keys, i, run>>

UnitMetaUpdate(n) ==
    /\ unit[n] = "meta_update"
    /\ \E ok \in BOOLEAN :
         /\ ~ok => faults < MaxFaults
         /\ faults' = IF ok THEN faults ELSE faults + 1
         /\ store' = IF ok THEN CopyObjectReplace(store, keys[n], metadir) ELSE store
         /\ calls' = InsertCall(calls, UnitCall("copy-object", n, metadir,
                                                IF ok THEN "ok" ELSE "failed"))
    /\ unit' = [unit EXCEPT ![n] = Finish(n)]
    /\ UNCHANGED <<inputs, fields, pc, phase, keys, i, run>>

UnitCreateKey(n) ==
    /\ unit[n] = "except"
    /\ \E ok \in BOOLEAN :
         /\ ~ok => faults < MaxFaults
         /\ faults' = IF ok THEN faults ELSE faults + 1
         /\ store' = IF ok THEN PutObject(store, keys[n], metadir) ELSE store
         /\ calls' = InsertCall(calls, UnitCall("put-object", n, metadir,
                                                IF ok THEN "ok" ELSE "failed"))
    /\ unit' = [unit EXCEPT ![n] = Finish(n)]
    /\ UNCHANGED <<inputs, fields, pc, phase, keys, i, run>>

NextUnits ==
    \E n \in DOMAIN unit :
        \/ UnitKeyExists(n)
        \/ UnitMetaCheck(n)
        \/ UnitMetaUpdate(n)
        \/ UnitCreateKey(n)

SpecUnits == InitUnits /\ [][NextUnits]_vars

\* how the command op of element n ended in the log ("none" if not issued)
ResOf(op, n) ==
    LET js == {j \in DOMAIN calls : calls[j].n = n /\ calls[j].op = op}
    IN  IF js = {} THEN "none" ELSE calls[CHOOSE j \in js : TRUE].res

\* verify_keys on elements n.. of keys, in list order, from the store st, each
\* command failing where the log says it failed: the store left and the
\* mutations issued
RECURSIVE verify_keys(_, _)
verify_keys(st, n) ==
    IF n > Len(keys) THEN [store |-> st, muts |-> {}]
    ELSE LET fault == IF ResOf("head-object", n) \in {"other_error", "malformed"}
                      THEN ResOf("head-object", n) ELSE "none"
             to == after_check(meta_check(HeadObject(st, keys[n], fault)))
             op == CASE to = "except" -> "put-object"
                     [] to = "meta_update" -> "copy-object"
                     [] to = "next" -> "none"
             ok == ResOf(op, n) # "failed"
             st2 == CASE op = "put-object" /\ ok -> PutObject(st, keys[n], metadir)
                      [] op = "copy-object" /\ ok -> CopyObjectReplace(st, keys[n], metadir)
                      [] OTHER -> st
             rest == verify_keys(st2, n + 1)
         IN  [store |-> rest.store,
              muts |-> (IF op = "none" THEN {} ELSE {<<op, keys[n], metadir>>})
                           \cup rest.muts]

----------------------------------------------------------------------------
(* Vocabulary of the properties *)

Idx(op) == {j \in DOMAIN calls : calls[j].op = op}

\* the calls made for element n of the list of verify_keys call ph
At(op, ph, n) == {j \in Idx(op) : calls[j].ph = ph /\ calls[j].n = n}

\* verify_keys call ph has finished with element n of its list
Processed(ph, n) ==
    /\ n \in 1..Len(sync_keys(ph))
    /\ \/ phase > ph
       \/ phase = ph /\ i > n

Elements == {e \in (1..2) \X (1..(Len(localToKeys) + 1)) : Processed(e[1], e[2])}

\* the answer the lookup of element e got
Lookup(e) == calls[CHOOSE j \in At("head-object", e[1], e[2]) : TRUE].res

Mutations(e) == At("put-object", e[1], e[2]) \cup At("copy-object", e[1], e[2])

\* m is the user's attribute set with mode forced to v
IsPolicySet(m, v) ==
    /\ DOMAIN m = DOMAIN metadata \cup {"mode"}
    /\ m["mode"] = v
    /\ \A a \in DOMAIN metadata \ {"mode"} : m[a] = metadata[a]

DirMode == "509"
FileMode == "33204"

\* C1: each element of a reconciled list is looked up exactly once, and a
\* not-found answer is followed by exactly one put-object with the directory
\* attributes and no copy-object, an answer with empty Metadata by exactly one
\* copy-object with the directory attributes and no put-object, an answer
\* with non-empty Metadata by no mutation at all.
C1_MutationsFollowLookup ==
    \A e \in Elements :
        LET k == sync_keys(e[1])[e[2]]
            puts == At("put-object", e[1], e[2])
            copies == At("copy-object", e[1], e[2])
        IN  /\ Cardinality(At("head-object", e[1], e[2])) = 1
            /\ \A j \in At("head-object", e[1], e[2]) : calls[j].key = k
            /\ \A j \in puts \cup copies :
                   calls[j].key = k /\ IsPolicySet(calls[j].meta, DirMode)
            /\ Lookup(e) = "not_found" =>
                   Cardinality(puts) = 1 /\ copies = {}
            /\ Lookup(e) = "empty" =>
                   Cardinality(copies) = 1 /\ puts = {}
            /\ Lookup(e) = "meta" =>
                   puts = {} /\ copies = {}

\* a finished run that met all three answers
C1_Witness ==
    /\ pc = "done"
    /\ \E e1, e2, e3 \in Elements :
         /\ Lookup(e1) = "not_found" /\ At("put-object", e1[1], e1[2]) # {}
         /\ Lookup(e2) = "empty" /\ At("copy-object", e2[1], e2[2]) # {}
         /\ Lookup(e3) = "meta" /\ Mutations(e3) = {}

LookupFailures == {"other_error", "malformed"}

\* C2: a lookup that failed for another reason than not-found is followed by
\* no put-object and no copy-object for that element, and the run stops
\* there; every put-object follows a not-found answer.
C2_NoCreateOnLookupFailure ==
    /\ \A e \in Elements : Lookup(e) \in LookupFailures => Mutations(e) = {}
    /\ \A j \in Idx("put-object") :
           \A h \in At("head-object", calls[j].ph, calls[j].n) :
               calls[h].res = "not_found"

HasMeta(st, k) == Get(st, k).exists /\ Get(st, k).meta # NoMeta

\* C3: when verify_keys has returned, every key of its list exists in the
\* store with non-empty metadata.
C3_AllKeysHaveMetadata ==
    pc \in {"sync_216", "sync_219"} =>
        \A n \in 1..Len(keys) : HasMeta(store, keys[n])

\* C4: a second run on the store the first run left issues no put-object and
\* no copy-object.
C4_SecondRunNoMutations ==
    run >= 2 => Idx("put-object") = {} /\ Idx("copy-object") = {}

\* the root key, and the keys of the list after its first element
RootKeys == {key}
SubdirKeys == Range(Slice(localToKeys, 1))

KeyOps == {"head-object", "put-object", "copy-object"}

\* the part of sync a command belongs to, told from the command itself
PhaseOf(c) ==
    IF c.op = "sync" THEN 3
    ELSE IF c.key \in RootKeys THEN 1
    ELSE IF c.key \in SubdirKeys THEN 2
    ELSE 0

\* C5: the commands of a run come in three phases: those on the root key,
\* then those on the subdirectory keys, then one sync; when sync is issued
\* every key of both lists has been looked up and answered, and nothing is
\* issued after it.
C5_ThreePhases ==
    /\ \A a, b \in DOMAIN calls :
           a < b => /\ PhaseOf(calls[a]) \in 1..3
                    /\ PhaseOf(calls[a]) <= PhaseOf(calls[b])
                    /\ calls[a].op # "sync"
    /\ Idx("sync") # {} =>
           /\ Cardinality(Idx("head-object")) = Len(localToKeys)
           /\ \A j \in Idx("head-object") : calls[j].res # "pending"
           /\ \A k \in RootKeys \cup SubdirKeys :
                  \E j \in Idx("head-object") : calls[j].key = k

\* sync has been issued after commands on the root key and on subdirectories
C5_Witness ==
    /\ Idx("sync") # {}
    /\ \E a, b \in DOMAIN calls :
           a < b /\ PhaseOf(calls[a]) = 1 /\ PhaseOf(calls[b]) = 2
    /\ Cardinality({calls[j].key : j \in Idx("head-object")}) >= 3

Failed(c) == c.res \in LookupFailures \cup {"failed"}

\* C6: sync is issued only by a run in which no lookup, put-object or
\* copy-object has failed.
C6_NoSyncAfterFailure ==
    \A j \in Idx("sync") : \A h \in 1..(j - 1) : ~Failed(calls[h])

Contains(s, c) == \E j \in DOMAIN s : s[j] = c

DirKey(d) == IF d = <<>> THEN key ELSE key \o JoinPath(d) \o <<"/">>

\* C8: on a store holding none of the keys of the n directories of the
\* tree, a run issues exactly n put-object, one per directory key and each
\* with the directory attributes, no copy-object, and then one sync with the
\* file attributes.
C8_OneCreatePerDirectory ==
    (/\ pc = "done"
     /\ run = 1
     /\ tree # {}
     /\ \A d \in tree : ~Get(store0, DirKey(d)).exists)
    => /\ Cardinality(Idx("put-object")) = Cardinality(tree)
       /\ \A d \in tree :
              \E j \in Idx("put-object") :
                  /\ calls[j].key = DirKey(d)
                  /\ IsPolicySet(calls[j].meta, DirMode)
                  /\ \A h \in Idx("put-object") : calls[h].key = DirKey(d) => h = j
       /\ Idx("copy-object") = {}
       /\ Cardinality(Idx("sync")) = 1
       /\ \A j \in Idx("sync") :
              j = Len(calls) /\ IsPolicySet(calls[j].meta, FileMode)

\* C9: every key a head-object, put-object or copy-object is issued for ends
\* in "/".
C9_KeysEndInSlash ==
    \A j \in DOMAIN calls : calls[j].op \in KeyOps => EndsWithSlash(calls[j].key)

Constructed == pc # "main"

\* C10 as stated: the first element of the key list is the root key.
C10_FirstElementIsRootKey ==
    Constructed => localToKeys[1] = key

\* the keys looked up so far, in order
RECURSIVE LookedUp(_)
LookedUp(cs) ==
    IF cs = <<>> THEN <<>>
    ELSE (IF Head(cs).op = "head-object" THEN <<Head(cs).key>> ELSE <<>>)
             \o LookedUp(Tail(cs))

\* C10: the first element of the key list is the root key followed by one
\* more "/", so it is not the root key; a finished run has looked up the
\* root key and then elements 2..n of the list in order, each position once,
\* and the root key exactly once.
C10_FirstElementIsRootKeyPlusSlash ==
    Constructed =>
        /\ localToKeys[1] = key \o <<"/">>
        /\ localToKeys[1] # key
        /\ pc = "done" =>
               /\ LookedUp(calls) = <<key>> \o Slice(localToKeys, 1)
               /\ Cardinality({j \in Idx("head-object") : calls[j].key = key}) = 1

\* a finished run over a tree with subdirectories
C10_Witness ==
    /\ pc = "done"
    /\ Len(localToKeys) >= 3
    /\ Len(LookedUp(calls)) = Len(localToKeys)

\* the entry of the key list for the directory d: prefix + relative path + "/"
ListKey(d) == key \o JoinPath(d) \o <<"/">>

Positions(k) == {j \in DOMAIN localToKeys : localToKeys[j] = k}

\* C11: however the local path is written, the key list has exactly one
\* entry per directory of the tree and no duplicates, the entry of the
\* directory at relative path r is prefix + r + "/", every entry ends in "/",
\* and the entries are in the order of their local path strings.
C11_OneEntryPerDirectory ==
    (Constructed /\ tree # {}) =>
        /\ Len(localToKeys) = Cardinality(tree)
        /\ \A d \in tree : Cardinality(Positions(ListKey(d))) = 1
        /\ \A j \in DOMAIN localToKeys : EndsWithSlash(localToKeys[j])
        /\ \A d, e \in tree :
               StrLess(FindLine(local, d), FindLine(local, e)) =>
                   \A j \in Positions(ListKey(d)), h \in Positions(ListKey(e)) : j < h

\* C12: a local path that is missing or cannot be traversed makes the run
\* fail before any aws command is issued; an empty directory gives the
\* one-element key list of the root and the run goes on.
C12_MissingLocalAborts ==
    /\ tree = {} => /\ calls = <<>>
                    /\ store = store0
                    /\ Constructed => pc = "crashed"
    /\ (tree = {<<>>} /\ Constructed /\ metadata # Malformed) =>
           Len(localToKeys) = 1 /\ pc # "crashed"

\* C13: with a --metadata that is not a well-formed attribute mapping the
\* run fails in the constructor, and no aws command has been issued and the
\* store is as it was.
C13_MalformedMetadataFailsAtStartup ==
    metadata = Malformed =>
        /\ calls = <<>>
        /\ store = store0
        /\ Constructed => pc = "crashed"

\* the constructor has failed on a malformed --metadata
C13_Witness == metadata = Malformed /\ pc = "crashed"

\* C14: the directory set and the file set agree with the user's set on every
\* attribute but mode, hold no other attribute than those and mode, and have
\* mode 509 and 33204; a mode of the user's set is kept in neither.
C14_PolicySets ==
    (Constructed /\ metadata # Malformed) =>
        /\ IsPolicySet(metadir, DirMode)
        /\ IsPolicySet(metafile, FileMode)
        /\ "mode" \in DOMAIN metadata =>
               metadir["mode"] # metadata["mode"] /\ metafile["mode"] # metadata["mode"]

\* the constructor has run on a user's set that holds a mode of its own
C14_Witness ==
    /\ pc = "sync_213"
    /\ "mode" \in DOMAIN metadata
    /\ metadata["mode"] \notin {DirMode, FileMode}
    /\ DOMAIN metadir = DOMAIN metadata

\* C15: the bucket is the part of the target before its first "/" and the
\* prefix (the root key) is all that follows it; a target without "/" has
\* the empty prefix.
C15_SplitOnFirstSlash ==
    Constructed =>
        LET at == {j \in DOMAIN s3path : s3path[j] = "/"}
        IN  IF at = {}
            THEN bucket = s3path /\ key = <<>>
            ELSE \E f \in at :
                     /\ \A j \in at : f <= j
                     /\ bucket = SubSeq(s3path, 1, f - 1)
                     /\ key = SubSeq(s3path, f + 1, Len(s3path))

InFlight == {j \in DOMAIN calls : calls[j].res = "pending"}

\* C16: at most one aws command is in flight at any time, the commands come
\* in list order, and the lookup of an element is issued only when the lookup
\* of the element before it has been answered and its put-object or
\* copy-object, if any, has ended.
C16_OneCommandAtATime ==
    /\ Cardinality(InFlight) <= 1
    /\ \A j \in InFlight : j = Len(calls) /\ calls[j].op = "head-object"
    /\ \A a, b \in DOMAIN calls :
           (a < b /\ calls[b].op \in KeyOps) =>
               \/ calls[a].ph < calls[b].ph
               \/ calls[a].ph = calls[b].ph /\ calls[a].n <= calls[b].n
    /\ \A j \in Idx("head-object") :
           /\ \A h \in 1..(j - 1) : calls[h].res # "pending"
           /\ calls[j].n > 1 =>
                  \E h \in 1..(j - 1) :
                      /\ calls[h].op = "head-object"
                      /\ calls[h].ph = calls[j].ph
                      /\ calls[h].n = calls[j].n - 1
           /\ \A h \in (j + 1)..Len(calls) :
                  calls[h].op \in {"put-object", "copy-object"} =>
                      calls[h].ph # calls[j].ph \/ calls[h].n >= calls[j].n

\* a lookup is in flight after an earlier element was looked up and mutated
C16_Witness ==
    /\ InFlight # {}
    /\ Cardinality(Idx("head-object")) >= 3
    /\ Idx("put-object") # {}
    /\ Idx("copy-object") # {}

Distinct(s) == \A a, b \in DOMAIN s : s[a] = s[b] => a = b

UnitsDone == pc = "units" /\ \A n \in DOMAIN unit : unit[n] \in Finished

MutationsIssued ==
    {<<calls[j].op, calls[j].key, calls[j].meta>> :
         j \in Idx("put-object") \cup Idx("copy-object")}

\* what one unit does to a key in the state o, its lookup failing or not
Decision(o, res) ==
    IF res \in LookupFailures \/ ~o.exists THEN "put-object"
    ELSE IF o.meta = NoMeta THEN "copy-object"
    ELSE "none"

\* C17: for a list of pairwise distinct keys, whatever the order and the
\* interleaving in which the units of the elements run, the mutation of each
\* element is decided by the state its own key had at the start, and the
\* mutations issued and the store left are those of the run in list order.
C17_UnitsIndependent ==
    (UnitsDone /\ Distinct(keys)) =>
        /\ \A n \in DOMAIN keys :
               LET d == Decision(Get(store0, keys[n]), ResOf("head-object", n))
               IN  /\ ResOf("put-object", n) # "none" <=> d = "put-object"
                   /\ ResOf("copy-object", n) # "none" <=> d = "copy-object"
        /\ MutationsIssued = verify_keys(store0, 1).muts
        /\ store = verify_keys(store0, 1).store

\* three units have run, the last two each ending before an earlier one;
\* one created its key and one replaced metadata
C17_Witness ==
    /\ UnitsDone
    /\ Distinct(keys)
    /\ Len(keys) = 3
    /\ unit[2] = "done_early"
    /\ unit[3] = "done_early"
    /\ Idx("put-object") # {}
    /\ Idx("copy-object") # {}

Listed == RootKeys \cup SubdirKeys

\* C18: a run leaves every object outside its key lists as it was, leaves
\* every object that had non-empty metadata with exactly that metadata, and
\* removes no object.
C18_FrameUnchanged ==
    /\ \A k \in DOMAIN store0 :
           /\ k \notin Listed => Get(store, k) = store0[k]
           /\ HasMeta(store0, k) => Get(store, k) = store0[k]
           /\ store0[k].exists => Get(store, k).exists
    /\ \A k \in DOMAIN store \ DOMAIN store0 : k \in Listed

Parent(d) == SubSeq(d, 1, Len(d) - 1)

\* the list element that stands for each directory: the root key for the
\* root, else the entry at the place of its line in the sorted output of find
ElementOf ==
    LET lst == dLst(local, tree)
    IN  [d \in tree |->
            IF d = <<>> THEN <<1, 1>>
            ELSE <<2, (CHOOSE j \in 1..Len(lst) : lst[j] = FindLine(local, d)) - 1>>]

CallsFor(e) ==
    {j \in DOMAIN calls :
         calls[j].op \in KeyOps /\ calls[j].ph = e[1] /\ calls[j].n = e[2]}

\* C19: every command for the key of a subdirectory is issued after the key
\* of its parent directory has been looked up, answered and, if need be,
\* created, so a key created by the run always has a processed parent.
C19_ParentFirst ==
    (Constructed /\ tree # {}) =>
        LET el == ElementOf
        IN  \A d \in tree \ {<<>>} :
                LET p == el[Parent(d)]
                IN  \A j \in CallsFor(el[d]) :
                        /\ \E h \in CallsFor(p) :
                               /\ h < j
                               /\ calls[h].op = "head-object"
                               /\ calls[h].res # "pending"
                        /\ \A h \in CallsFor(p) : h < j
                        /\ phase > p[1] \/ (phase = p[1] /\ i > p[2])

\* a run has created the key of b and then the key of b/c
C19_Witness ==
    /\ pc = "done"
    /\ <<"b", "c">> \in tree
    /\ \E j \in CallsFor(ElementOf[<<"b">>]), h \in CallsFor(ElementOf[<<"b", "c">>]) :
           /\ calls[j].op = "put-object" /\ calls[j].res = "ok"
           /\ calls[h].op = "put-object" /\ calls[h].res = "ok"
           /\ j < h

====
